---- MODULE Spec2Model ----
(***************************************************************************)
(* Model of examples/echo-server.rs: a listener whose items are driven by  *)
(* Stream::for_each; each item runs the upgrade chain (plaintext-or-secio, *)
(* multiplex, "/echo/1.0.0") and then the length-delimited echo loop; the  *)
(* result of every item is absorbed by `.then`.                            *)
(***************************************************************************)
EXTENDS Naturals, Integers, Sequences, FiniteSets, TLC

VARIABLES
    nArrived,    \* number of connections the peers have opened so far
    queue,       \* items the listener has ready and for_each has not taken yet
    fut,         \* ForEach.fut: the item whose future is being driven, 0 for None
    loopState,   \* "running" | "failed": state of the future given to core.run
    stage,       \* per item: position in the upgrade chain
    stagesDone,  \* per item: the stages that succeeded, in the order they did
    session,     \* per item: state of the echo loop
    err,         \* per item: the error printed by the `.then` closure, "none" if none
    link,        \* per item: what the remote did to its end: "open", "eof", "reset"
    peerModes,   \* per item: security modes the remote announced
    secMode,     \* per item: security mode negotiated
    protoId,     \* per item: protocol identifier negotiated
    offered,     \* per item: identifiers the remote offered in the negotiation
    inbuf,       \* per item: bytes sent by the remote and not yet decoded
    nSent,       \* per item: chunks the remote has sent
    received,    \* per item: frames yielded by socket.into_future()
    pending,     \* per item: the frame handed to rest.send(msg), as <<msg>>, or <<>>
    outwire,     \* per item: bytes written to the substream by the server
    wbuf,        \* per item: bytes of the frame being sent that the socket has not
                 \* taken yet
    nWritten,    \* per item: number of completed rest.send(msg)
    holders,     \* per item: the futures that own the socket value
    argv,        \* command line after the program name: <<>> or <<text>>, the text
                 \* of a multiaddr being the sequence of its parts between "/"
    startup,     \* how far main got: "start", "parsed", "listening", "failed"
    addr,        \* the parsed listen address, <<>> before parsing succeeded
    bound,       \* the address the listening socket is bound to, <<>> if none
    panic,       \* message of the expect that ended the process, "none" if none
    failAddr,    \* the address carried by the listen error, <<>> if none
    cache,       \* reuse adapter: peers with a live multiplexed connection
    nDials,      \* per peer: outbound requests made
    nEstablished, \* per peer: underlying connections established
    nSubstreams, \* per peer: outbound substreams opened
    nClosed      \* per peer: underlying connections that were closed

bootVars == <<argv, startup, addr, bound, panic, failAddr>>

dialVars == <<cache, nDials, nEstablished, nSubstreams, nClosed>>

serverVars == <<nArrived, queue, fut, loopState, stage, stagesDone, session, err, link,
                peerModes, secMode, protoId, offered, inbuf, nSent, received, pending,
                outwire, wbuf, nWritten, holders>>

vars == <<serverVars, bootVars, dialVars>>

(***************************************************************************)
(* Bounds of the model.                                                    *)
(***************************************************************************)
MaxItems == 2
MaxSends == 2
MaxDials == 3

Items == 1..MaxItems

\* Payloads the remote puts into well-formed frames (the empty one included).
Payloads == {<<>>, <<1, 0>>}

(***************************************************************************)
(* Configuration written in main.                                          *)
(***************************************************************************)
\* Faulty variant: secio was never added to the upgrade.
LocalSecurityModesPlainOnly == {"plaintext"}

\* plain_text.or_upgrade(secio)
LocalSecurityModes == {"plaintext", "secio"}

\* Faulty variant: a second identifier is accepted for the echo handler.
ConfiguredProtocolsTwo == {"/echo/1.0.0", "/echo/2.0.0"}

\* SimpleProtocol::new("/echo/1.0.0", ...)
ConfiguredProtocols == {"/echo/1.0.0"}

\* The chain of with_upgrade calls, in the order main composes them.
UpgradeChain == <<"security", "multiplex", "protocol">>

\* length_delimited::Framed::new(socket): 4-byte big-endian length prefix,
\* frames of at most 8 MiB.
HeadLen == 4
MaxFrameLen == 8388608


(***************************************************************************)
(* length_delimited codec behind Framed::new.                              *)
(***************************************************************************)
\* The length prefix: n as HeadLen big-endian bytes.
EncodeHead(n) ==
    <<(n \div 16777216) % 256, (n \div 65536) % 256, (n \div 256) % 256, n % 256>>

\* The number a length prefix stands for.
DecodeHead(b) == b[1] * 16777216 + b[2] * 65536 + b[3] * 256 + b[4]

\* What the sink puts on the wire for one message.
Encode(msg) == EncodeHead(Len(msg)) \o msg

\* One decode attempt on the undecoded bytes. "frame": a whole frame was cut
\* off the front; "none": more bytes are needed (rest is what the read buffer
\* holds once a complete head has been consumed); "error": frame too big.
Decode(buf) ==
    IF Len(buf) < HeadLen
    THEN [kind |-> "none", msg |-> <<>>, rest |-> buf]
    ELSE LET n    == DecodeHead(SubSeq(buf, 1, HeadLen))
             body == SubSeq(buf, HeadLen + 1, Len(buf))
         IN  IF n > MaxFrameLen
             THEN [kind |-> "error", msg |-> <<>>, rest |-> buf]
             ELSE IF Len(body) < n
             THEN [kind |-> "none", msg |-> <<>>, rest |-> body]
             ELSE [kind |-> "frame", msg |-> SubSeq(body, 1, n),
                   rest |-> SubSeq(body, n + 1, Len(body))]

\* Faulty variant: end of stream is reported as an error.
PollReadEofIsError(buf, lnk) ==
    LET d == Decode(buf)
    IN  IF d.kind = "frame" THEN [kind |-> "item", msg |-> d.msg, rest |-> d.rest]
        ELSE IF d.kind = "error" \/ lnk \in {"reset", "eof"}
        THEN [kind |-> "error", msg |-> <<>>, rest |-> <<>>]
        ELSE [kind |-> "notready", msg |-> <<>>, rest |-> buf]

\* Faulty variant: a broken frame head or connection ends the stream quietly.
PollReadErrorIsEof(buf, lnk) ==
    LET d == Decode(buf)
    IN  IF d.kind = "frame" THEN [kind |-> "item", msg |-> d.msg, rest |-> d.rest]
        ELSE IF d.kind = "error" \/ lnk \in {"reset", "eof"}
        THEN [kind |-> "eof", msg |-> <<>>, rest |-> <<>>]
        ELSE [kind |-> "notready", msg |-> <<>>, rest |-> buf]

\* Faulty variant: a frame of length 0 is taken for the end of the stream.
PollReadEmptyIsEof(buf, lnk) ==
    LET d == Decode(buf)
    IN  IF d.kind = "frame" /\ d.msg # <<>>
        THEN [kind |-> "item", msg |-> d.msg, rest |-> d.rest]
        ELSE IF d.kind = "frame"
        THEN [kind |-> "eof", msg |-> <<>>, rest |-> <<>>]
        ELSE IF d.kind = "error" \/ lnk = "reset"
        THEN [kind |-> "error", msg |-> <<>>, rest |-> <<>>]
        ELSE IF lnk = "eof"
        THEN [kind |-> IF d.rest = <<>> THEN "eof" ELSE "error",
              msg |-> <<>>, rest |-> <<>>]
        ELSE [kind |-> "notready", msg |-> <<>>, rest |-> buf]

\* socket.into_future() on the framed socket: the next item of the stream.
\* "item" (Some(msg)), "eof" (None), "error", or "notready".
PollRead(buf, lnk) ==
    LET d == Decode(buf)
    IN  IF d.kind = "frame" THEN [kind |-> "item", msg |-> d.msg, rest |-> d.rest]
        ELSE IF d.kind = "error" \/ lnk = "reset"
        THEN [kind |-> "error", msg |-> <<>>, rest |-> <<>>]
        ELSE IF lnk = "eof"
        THEN [kind |-> IF d.rest = <<>> THEN "eof" ELSE "error",
              msg |-> <<>>, rest |-> <<>>]
        ELSE [kind |-> "notready", msg |-> <<>>, rest |-> buf]

\* The frames a byte sequence consists of, read the way the remote reads them.
RECURSIVE FramesOf(_)
FramesOf(wire) ==
    LET d == Decode(wire)
    IN  IF d.kind = "frame" THEN <<d.msg>> \o FramesOf(d.rest) ELSE <<>>

\* The bytes left over after the last whole frame of a byte sequence.
RECURSIVE Leftover(_)
Leftover(wire) ==
    LET d == Decode(wire)
    IN  IF d.kind = "frame" THEN Leftover(d.rest) ELSE wire

(***************************************************************************)
(* The echo loop's own steps.                                              *)
(***************************************************************************)
\* Faulty variant: the first byte of the message is lost before it is sent.
EchoMsgTruncated(msg) == IF msg = <<>> THEN msg ELSE Tail(msg)

\* rest.send(msg): the message handed to the sink is the one just received.
EchoMsg(msg) == msg

\* Faulty variant: the bytes are put in front of what is on the wire.
WriteOutFront(wire, bytes) == bytes \o wire

\* Faulty variant: the bytes the socket took never reach the wire.
WriteOutNoFlush(wire, bytes) == wire

\* Faulty variant: the bytes the socket took go out twice.
WriteOutTwice(wire, bytes) == wire \o bytes \o bytes

\* One write on the socket: the bytes it took follow what the wire carries.
WriteOut(wire, bytes) == wire \o bytes

\* The first n bytes of a buffer, and what is left after them.
Taken(buf, n) == SubSeq(buf, 1, n)
Kept(buf, n) == SubSeq(buf, n + 1, Len(buf))

\* Faulty variant: the socket is shared with the next future instead of moved.
Copy(h, from, to) == h \cup {to}

\* The socket value moves from one future to the next.
Move(h, from, to) == (h \ {from}) \cup {to}

(***************************************************************************)
(* Negotiation performed by the upgrade stages.                            *)
(***************************************************************************)
\* Security mode chosen between the local modes and the remote's announcement.
SelectSecurity(local, remote) ==
    IF "secio" \in local \cap remote THEN "secio"
    ELSE IF "plaintext" \in local \cap remote THEN "plaintext"
    ELSE "none"

\* First identifier offered by the remote that is configured locally.
RECURSIVE SelectProtocol(_, _)
SelectProtocol(configured, offer) ==
    IF offer = <<>> THEN "none"
    ELSE IF Head(offer) \in configured THEN Head(offer)
    ELSE SelectProtocol(configured, Tail(offer))

\* Faulty variant: the stage after the security upgrade is left out.
NextStageSkip(s) ==
    LET k == CHOOSE j \in 1..Len(UpgradeChain) : UpgradeChain[j] = s
    IN  IF k + 1 < Len(UpgradeChain) THEN UpgradeChain[k + 2] ELSE "session"

\* The stage that follows stage s in the chain; the echo session follows the last.
NextStage(s) ==
    LET k == CHOOSE j \in 1..Len(UpgradeChain) : UpgradeChain[j] = s
    IN  IF k < Len(UpgradeChain) THEN UpgradeChain[k + 1] ELSE "session"

(***************************************************************************)
(* The supervisor.                                                         *)
(***************************************************************************)
\* Faulty variant: the result of the item's future is passed on unchanged.
ThenPropagate(res) == res

\* .then(|res| { if let Err(err) = res { println!(..) } Ok(()) })
Then(res) == "ok"

\* ForEach::poll: an Err of the item's future ends for_each with that error.
ForEachAfter(res) == IF res = "err" THEN "failed" ELSE "running"

\* Faulty variant: an Err of the listener stream is skipped.
StreamErrorSkipped == "running"

\* ForEach::poll: an Err of the listener stream ends for_each with that error.
StreamError == "failed"

\* Faulty variant: the next item is taken whenever the listener has one.
CanAcceptAnyTime == loopState = "running" /\ queue # <<>>

\* ForEach::poll takes the next item only when no item future is in flight.
CanAccept == loopState = "running" /\ fut = 0 /\ queue # <<>>

(***************************************************************************)
(* What the remote may do.                                                 *)
(***************************************************************************)
PeerModeSets == SUBSET {"plaintext", "secio"}

PeerOffers == {<<"/echo/2.0.0", "/echo/1.0.0">>, <<"/echo/2.0.0">>, <<"/echo/1.0.0/x">>}

\* Bytes that are no whole frame: an oversized head, half a head.
RawChunks == {<<1, 0, 0, 0>>, <<0, 0>>}

Chunks == {Encode(p) : p \in Payloads} \cup RawChunks

(***************************************************************************)
(* Startup: the listen address.                                            *)
(***************************************************************************)
\* Faulty variant: the default listens on the loopback interface only.
DefaultAddrLoopback == <<"ip4", "127.0.0.1", "tcp", "10333">>

\* unwrap_or("/ip4/0.0.0.0/tcp/10333".to_owned())
DefaultAddr == <<"ip4", "0.0.0.0", "tcp", "10333">>

\* env::args().nth(1).unwrap_or(default)
ListenText(args) == IF args = <<>> THEN DefaultAddr ELSE args[1]

\* Values the address codec understands, with what they stand for.
Ip4Of == ("0.0.0.0" :> <<0, 0, 0, 0>>) @@ ("127.0.0.1" :> <<127, 0, 0, 1>>)

PortOf == ("10333" :> 10333) @@ ("4001" :> 4001)

KnownTags == {"ip4", "tcp", "udp"}

\* A value of the given protocol is well formed.
WellFormed(tag, val) ==
    IF tag = "ip4" THEN val \in DOMAIN Ip4Of ELSE val \in DOMAIN PortOf

\* The typed value of a well-formed component.
ValueOf(tag, val) == IF tag = "ip4" THEN Ip4Of[val] ELSE PortOf[val]

\* The components of (tag, value, tag, value, ...); ok is FALSE on an
\* unknown tag, a missing value or a malformed value.
RECURSIVE ParseParts(_)
ParseParts(parts) ==
    IF parts = <<>> THEN [ok |-> TRUE, desc |-> <<>>]
    ELSE IF Len(parts) < 2 \/ parts[1] \notin KnownTags THEN [ok |-> FALSE, desc |-> <<>>]
    ELSE IF ~WellFormed(parts[1], parts[2]) THEN [ok |-> FALSE, desc |-> <<>>]
    ELSE LET rest == ParseParts(SubSeq(parts, 3, Len(parts)))
         IN  IF rest.ok
             THEN [ok |-> TRUE,
                   desc |-> <<[tag |-> parts[1], value |-> ValueOf(parts[1], parts[2])]>>
                            \o rest.desc]
             ELSE [ok |-> FALSE, desc |-> <<>>]

\* Multiaddr::new(&listen_addr): empty input is rejected.
ParseAddr(parts) ==
    IF parts = <<>> THEN [ok |-> FALSE, desc |-> <<>>] ELSE ParseParts(parts)

\* The TCP transport listens on an IP address followed by a TCP port only.
ListenSupported(desc) ==
    Len(desc) = 2 /\ desc[1].tag = "ip4" /\ desc[2].tag = "tcp"

\* Faulty variant: the result of listen_on is used whether it is Ok or Err.
ListenOutcomeIgnored(supported) == "listening"

\* listen_on(..).map_err(|(_, addr)| addr).expect("unsupported multiaddr")
ListenOutcome(supported) == IF supported THEN "listening" ELSE "failed"

\* core.run(future).unwrap(): what becomes of the process once for_each ended.
RunResult(ls) == IF ls = "failed" THEN "panic" ELSE "running"

\* Command lines tried: none (the default, a supported address), two that
\* parse but are not supported by the transport, and five that do not parse.
ArgVs ==
    {<<>>,
     << <<"ip4", "127.0.0.1", "udp", "4001">> >>,
     << <<"ip4", "0.0.0.0">> >>,
     << <<"ip4", "127.0.0.1", "tcp", "port">> >>,
     << <<"ip4", "999.0.0.1", "tcp", "4001">> >>,
     << <<"quic", "127.0.0.1">> >>,
     << <<"ip4">> >>,
     << <<>> >>}

\* Remote peers the reuse adapter may be asked to dial.
Peers == {"P", "Q"}

(***************************************************************************)
(* Initial states.                                                         *)
(***************************************************************************)
\* No connection has arrived.
NoItems ==
    /\ nArrived = 0
    /\ queue = <<>>
    /\ fut = 0
    /\ stage = [i \in Items |-> "absent"]
    /\ stagesDone = [i \in Items |-> <<>>]
    /\ session = [i \in Items |-> "none"]
    /\ err = [i \in Items |-> "none"]
    /\ link = [i \in Items |-> "open"]
    /\ peerModes = [i \in Items |-> {}]
    /\ secMode = [i \in Items |-> "none"]
    /\ protoId = [i \in Items |-> "none"]
    /\ offered = [i \in Items |-> <<>>]
    /\ inbuf = [i \in Items |-> <<>>]
    /\ nSent = [i \in Items |-> 0]
    /\ received = [i \in Items |-> <<>>]
    /\ pending = [i \in Items |-> <<>>]
    /\ outwire = [i \in Items |-> <<>>]
    /\ wbuf = [i \in Items |-> <<>>]
    /\ nWritten = [i \in Items |-> 0]
    /\ holders = [i \in Items |-> {}]

\* The reuse adapter has no connection.
NoDials ==
    /\ cache = {}
    /\ nDials = [p \in Peers |-> 0]
    /\ nEstablished = [p \in Peers |-> 0]
    /\ nSubstreams = [p \in Peers |-> 0]
    /\ nClosed = [p \in Peers |-> 0]

\* The process was started with one of the command lines; main has not run.
BootInit ==
    /\ argv \in ArgVs
    /\ startup = "start"
    /\ addr = <<>>
    /\ bound = <<>>
    /\ panic = "none"
    /\ failAddr = <<>>
    /\ loopState = "idle"
    /\ NoItems
    /\ NoDials

\* Listening on the default address, nothing arrived yet.
Init ==
    /\ argv = <<>>
    /\ startup = "listening"
    /\ addr = ParseAddr(DefaultAddr).desc
    /\ bound = ParseAddr(DefaultAddr).desc
    /\ panic = "none"
    /\ failAddr = <<>>
    /\ loopState = "running"
    /\ NoItems
    /\ NoDials

\* The item whose future resolved is dropped; no other item is touched.
Dropped(st, i) == [st EXCEPT ![i] = "dropped"]

\* The item for_each is driving is at the given stage.
Driving(i, s) == loopState = "running" /\ fut = i /\ stage[i] = s

\* The future of item i resolves with res (error e, session state sess): the
\* `.then` closure absorbs it, the socket and everything it owns is dropped,
\* and for_each is free to take the next item. off is what stays known of the
\* remote's offer (the cause of a failed negotiation).
Finish(i, res, e, sess, off) ==
    /\ loopState' = ForEachAfter(Then(res))
    /\ fut' = 0
    /\ stage' = Dropped(stage, i)
    /\ session' = [session EXCEPT ![i] = sess]
    /\ offered' = [offered EXCEPT ![i] = off]
    /\ err' = [err EXCEPT ![i] = IF res = "err" THEN e ELSE "none"]
    /\ holders' = [holders EXCEPT ![i] = {}]
    /\ link' = [link EXCEPT ![i] = "open"]
    /\ peerModes' = [peerModes EXCEPT ![i] = {}]
    /\ secMode' = [secMode EXCEPT ![i] = "none"]
    /\ protoId' = [protoId EXCEPT ![i] = "none"]
    /\ inbuf' = [inbuf EXCEPT ![i] = <<>>]
    /\ nSent' = [nSent EXCEPT ![i] = 0]
    /\ received' = [received EXCEPT ![i] = <<>>]
    /\ pending' = [pending EXCEPT ![i] = <<>>]
    /\ outwire' = [outwire EXCEPT ![i] = <<>>]
    /\ wbuf' = [wbuf EXCEPT ![i] = <<>>]

(***************************************************************************)
(* The remote.                                                             *)
(***************************************************************************)
\* A remote opens a connection: the listener has one more item ready.
PeerConnect ==
    /\ UNCHANGED <<bootVars, dialVars>>
    /\ loopState = "running"
    /\ nArrived < MaxItems
    /\ LET i == nArrived + 1
       IN  /\ nArrived' = i
           /\ queue' = Append(queue, i)
           /\ stage' = [stage EXCEPT ![i] = "queued"]
           /\ holders' = [holders EXCEPT ![i] = {"listener"}]
    /\ UNCHANGED <<fut, loopState, stagesDone, session, err, link, peerModes, secMode,
                   protoId, offered, inbuf, nSent, received, pending, outwire, wbuf, nWritten>>

\* The remote sends bytes on the substream of a running session.
PeerSend(i, c) ==
    /\ UNCHANGED <<bootVars, dialVars>>
    /\ Driving(i, "session")
    /\ link[i] = "open"
    /\ nSent[i] < MaxSends
    /\ inbuf' = [inbuf EXCEPT ![i] = @ \o c]
    /\ nSent' = [nSent EXCEPT ![i] = @ + 1]
    /\ UNCHANGED <<nArrived, queue, fut, loopState, stage, stagesDone, session, err,
                   link, peerModes, secMode, protoId, offered, received, pending, outwire, wbuf,
                   nWritten, holders>>

\* The remote closes its sending side: end-of-stream follows the bytes sent.
PeerClose(i) ==
    /\ UNCHANGED <<bootVars, dialVars>>
    /\ Driving(i, "session")
    /\ link[i] = "open"
    /\ link' = [link EXCEPT ![i] = "eof"]
    /\ UNCHANGED <<nArrived, queue, fut, loopState, stage, stagesDone, session, err,
                   peerModes, secMode, protoId, offered, inbuf, nSent, received, pending,
                   outwire, wbuf, nWritten, holders>>

\* The remote resets the connection: unread bytes are lost, reads and writes fail.
PeerReset(i) ==
    /\ UNCHANGED <<bootVars, dialVars>>
    /\ loopState = "running"
    /\ fut = i
    /\ link[i] # "reset"
    /\ link' = [link EXCEPT ![i] = "reset"]
    /\ inbuf' = [inbuf EXCEPT ![i] = <<>>]
    /\ UNCHANGED <<nArrived, queue, fut, loopState, stage, stagesDone, session, err,
                   peerModes, secMode, protoId, offered, nSent, received, pending, outwire, wbuf,
                   nWritten, holders>>

(***************************************************************************)
(* The server.                                                             *)
(***************************************************************************)
\* The for_each closure is called with the next item of the listener.
Accept ==
    /\ UNCHANGED <<bootVars, dialVars>>
    /\ CanAccept
    /\ LET i == Head(queue)
       IN  /\ queue' = Tail(queue)
           /\ fut' = i
           /\ stage' = [stage EXCEPT ![i] = UpgradeChain[1]]
           /\ holders' = [holders EXCEPT ![i] = Move(@, "listener", "upgrade")]
    /\ UNCHANGED <<nArrived, loopState, stagesDone, session, err, link, peerModes,
                   secMode, protoId, offered, inbuf, nSent, received, pending, outwire, wbuf,
                   nWritten>>

\* Stage s of item i succeeded: the next stage (or the echo loop) gets the socket.
Advance(i, s) ==
    /\ stage' = [stage EXCEPT ![i] = NextStage(s)]
    /\ stagesDone' = [stagesDone EXCEPT ![i] = Append(@, s)]
    /\ IF NextStage(s) = "session"
       THEN /\ session' = [session EXCEPT ![i] = "AwaitingFrame"]
            /\ holders' = [holders EXCEPT ![i] = Move(@, "upgrade", "into_future")]
       ELSE UNCHANGED <<session, holders>>
    /\ UNCHANGED <<nArrived, queue, fut, loopState, err, link, inbuf, nSent, received,
                   pending, outwire, wbuf, nWritten>>

\* plaintext-or-secio upgrade; the remote announces the modes M, and the secio
\* handshake succeeds or not (hs).
SecurityUpgrade(i, M, hs) ==
    /\ UNCHANGED <<bootVars, dialVars>>
    /\ Driving(i, "security")
    /\ LET sel == SelectSecurity(LocalSecurityModes, M)
       IN  IF link[i] = "reset"
           THEN Finish(i, "err", "ConnectionIoError", "none", <<>>)
                /\ UNCHANGED <<nArrived, queue, stagesDone, nWritten>>
           ELSE IF sel = "none"
           THEN Finish(i, "err", "NegotiationError", "none", <<>>)
                /\ UNCHANGED <<nArrived, queue, stagesDone, nWritten>>
           ELSE IF sel = "secio" /\ ~hs
           THEN Finish(i, "err", "SecurityHandshakeError", "none", <<>>)
                /\ UNCHANGED <<nArrived, queue, stagesDone, nWritten>>
           ELSE /\ Advance(i, "security")
                /\ peerModes' = [peerModes EXCEPT ![i] = M]
                /\ secMode' = [secMode EXCEPT ![i] = sel]
                /\ UNCHANGED <<protoId, offered>>

\* multiplex upgrade; ok tells whether the remote agrees to multiplex.
MultiplexUpgrade(i, ok) ==
    /\ UNCHANGED <<bootVars, dialVars>>
    /\ Driving(i, "multiplex")
    /\ IF link[i] = "reset"
       THEN Finish(i, "err", "ConnectionIoError", "none", <<>>)
            /\ UNCHANGED <<nArrived, queue, stagesDone, nWritten>>
       ELSE IF ~ok
       THEN Finish(i, "err", "NegotiationError", "none", <<>>)
            /\ UNCHANGED <<nArrived, queue, stagesDone, nWritten>>
       ELSE Advance(i, "multiplex") /\ UNCHANGED <<peerModes, secMode, protoId, offered>>

\* protocol negotiation on the substream; the remote offers the identifiers P.
ProtocolUpgrade(i, P) ==
    /\ UNCHANGED <<bootVars, dialVars>>
    /\ Driving(i, "protocol")
    /\ LET sel == SelectProtocol(ConfiguredProtocols, P)
       IN  IF link[i] = "reset"
           THEN Finish(i, "err", "ConnectionIoError", "none", <<>>)
                /\ UNCHANGED <<nArrived, queue, stagesDone, nWritten>>
           ELSE IF sel = "none"
           THEN Finish(i, "err", "NegotiationError", "none", P)
                /\ UNCHANGED <<nArrived, queue, stagesDone, nWritten>>
           ELSE /\ Advance(i, "protocol")
                /\ protoId' = [protoId EXCEPT ![i] = sel]
                /\ offered' = [offered EXCEPT ![i] = P]
                /\ UNCHANGED <<peerModes, secMode>>

\* socket.into_future() resolves: a message, end of stream, or an error.
ReadFrame(i) ==
    /\ UNCHANGED <<bootVars, dialVars>>
    /\ Driving(i, "session")
    /\ session[i] = "AwaitingFrame"
    /\ LET r == PollRead(inbuf[i], link[i])
       IN  /\ r.kind # "notready"
           /\ IF r.kind = "item"
              THEN /\ inbuf' = [inbuf EXCEPT ![i] = r.rest]
                   /\ received' = [received EXCEPT ![i] = Append(@, r.msg)]
                   /\ pending' = [pending EXCEPT ![i] = <<EchoMsg(r.msg)>>]
                   /\ wbuf' = [wbuf EXCEPT ![i] = Encode(EchoMsg(r.msg))]
                   /\ session' = [session EXCEPT ![i] = "Echoing"]
                   /\ holders' = [holders EXCEPT ![i] = Move(@, "into_future", "send")]
                   /\ UNCHANGED <<nArrived, queue, fut, loopState, stage, stagesDone,
                                  err, link, peerModes, secMode, protoId, offered,
                                  nSent, outwire, nWritten>>
              ELSE IF r.kind = "eof"
              THEN Finish(i, "ok", "none", "ClosedClean", <<>>)
                   /\ UNCHANGED <<nArrived, queue, stagesDone, nWritten>>
              ELSE Finish(i, "err", "StreamIoError", "ClosedFaulted", <<>>)
                   /\ UNCHANGED <<nArrived, queue, stagesDone, nWritten>>

\* rest.send(msg) is polled: the socket takes the next n bytes of the frame,
\* or the write fails (n = 0). The send resolves, and the loop continues, when the
\* socket has taken the whole frame and it is flushed; until then the future
\* is back in the event loop with the send pending.
WriteFrame(i, n) ==
    /\ UNCHANGED <<bootVars, dialVars>>
    /\ Driving(i, "session")
    /\ session[i] = "Echoing"
    /\ IF link[i] = "reset"
       THEN /\ n = 0
            /\ Finish(i, "err", "StreamIoError", "ClosedFaulted", <<>>)
            /\ UNCHANGED <<nArrived, queue, stagesDone, nWritten>>
       ELSE /\ n \in 1..Len(wbuf[i])
            /\ outwire' = [outwire EXCEPT ![i] = WriteOut(@, Taken(wbuf[i], n))]
            /\ wbuf' = [wbuf EXCEPT ![i] = Kept(@, n)]
            /\ IF n = Len(wbuf[i])
               THEN /\ nWritten' = [nWritten EXCEPT ![i] = @ + 1]
                    /\ pending' = [pending EXCEPT ![i] = <<>>]
                    /\ session' = [session EXCEPT ![i] = "AwaitingFrame"]
                    /\ holders' = [holders EXCEPT ![i] = Move(@, "send", "into_future")]
               ELSE UNCHANGED <<nWritten, pending, session, holders>>
            /\ UNCHANGED <<nArrived, queue, fut, loopState, stage, stagesDone, err,
                           link, peerModes, secMode, protoId, offered, inbuf, nSent,
                           received>>

\* The listener stream itself yields an error: for_each resolves with it.
ListenerError ==
    /\ UNCHANGED <<bootVars, dialVars>>
    /\ loopState = "running"
    /\ fut = 0
    /\ loopState' = StreamError
    /\ UNCHANGED <<nArrived, queue, fut, stage, stagesDone, session, err, link,
                   peerModes, secMode, protoId, offered, inbuf, nSent, received, pending,
                   outwire, wbuf, nWritten, holders>>

Next ==
    \/ PeerConnect
    \/ \E i \in Items, c \in Chunks : PeerSend(i, c)
    \/ \E i \in Items : PeerClose(i)
    \/ \E i \in Items : PeerReset(i)
    \/ Accept
    \/ \E i \in Items, M \in PeerModeSets, hs \in BOOLEAN : SecurityUpgrade(i, M, hs)
    \/ \E i \in Items, ok \in BOOLEAN : MultiplexUpgrade(i, ok)
    \/ \E i \in Items, P \in PeerOffers : ProtocolUpgrade(i, P)
    \/ \E i \in Items : ReadFrame(i)
    \/ \E i \in Items : \E n \in 0..Len(wbuf[i]) : WriteFrame(i, n)
    \/ ListenerError

Spec == Init /\ [][Next]_vars

(***************************************************************************)
(* Startup of main.                                                        *)
(***************************************************************************)
\* Multiaddr::new(&listen_addr).expect("invalid multiaddr")
ParseArg ==
    /\ startup = "start"
    /\ LET r == ParseAddr(ListenText(argv))
       IN  IF r.ok
           THEN /\ addr' = r.desc
                /\ startup' = "parsed"
                /\ UNCHANGED panic
           ELSE /\ startup' = "failed"
                /\ panic' = "invalid multiaddr"
                /\ UNCHANGED addr
    /\ UNCHANGED <<argv, bound, failAddr, serverVars, dialVars>>

\* transport.listen_on(addr): Ok((listener, address)) or Err((transport, addr)).
ListenOn ==
    /\ startup = "parsed"
    /\ LET supported == ListenSupported(addr)
           outcome   == ListenOutcome(supported)
       IN  /\ startup' = outcome
           /\ bound' = IF supported THEN addr ELSE <<>>
           /\ failAddr' = IF supported THEN <<>> ELSE addr
           /\ panic' = IF outcome = "failed" THEN "unsupported multiaddr" ELSE panic
           /\ loopState' = IF outcome = "listening" THEN "running" ELSE loopState
    /\ UNCHANGED <<argv, addr, dialVars, nArrived, queue, fut, stage, stagesDone, session,
                   err, link, peerModes, secMode, protoId, offered, inbuf, nSent,
                   received, pending, outwire, wbuf, nWritten, holders>>

BootNext ==
    \/ ParseArg
    \/ ListenOn
    \/ Next

SpecBoot == BootInit /\ [][BootNext]_vars

(***************************************************************************)
(* Properties.                                                             *)
(***************************************************************************)
EchoId == "/echo/1.0.0"

Range(q) == {q[k] : k \in 1..Len(q)}

UpgradeStages == {"security", "multiplex", "protocol"}

\* C1: whenever the future of the item being driven resolves with an error
\* (of any stage or of the echo session), the error is absorbed: the item is
\* dropped, for_each is still running with no item in flight, and it can take
\* the next connection as soon as one is ready.
C1_ErrorsAbsorbed ==
    [][\A i \in Items :
          (fut = i /\ stage'[i] = "dropped" /\ err'[i] # "none")
          => /\ loopState' = "running"
             /\ fut' = 0
             /\ holders'[i] = {}
             /\ (queue' # <<>> => CanAccept')]_vars

\* Two connections failed one after the other, and for_each is idle and running.
C1_Witness ==
    /\ \A i \in 1..2 : stage[i] = "dropped" /\ err[i] # "none"
    /\ err[1] = "StreamIoError" /\ err[2] = "NegotiationError"
    /\ loopState = "running" /\ fut = 0

\* The item in flight cannot make progress without the remote: its upgrade is
\* pending or its session awaits bytes that have not arrived.
Stalled(i) ==
    /\ fut = i
    /\ \/ stage[i] \in UpgradeStages
       \/ /\ session[i] = "AwaitingFrame"
          /\ PollRead(inbuf[i], link[i]).kind = "notready"

\* C2: while the item in flight is stalled (upgrade pending, or session
\* awaiting bytes), a connection that has arrived can still be accepted.
C2_StalledNeverBlocks ==
    \A i \in Items : (loopState = "running" /\ Stalled(i) /\ queue # <<>>) => CanAccept

\* C3: a session that received a frame B leaves the Echoing state only by
\* having written exactly one more frame, with content B, on the same
\* substream, in however many writes the socket took it; the one exception
\* is a write that fails because the remote reset the connection.
C3_EchoFidelity ==
    [][\A i \in Items :
          (session[i] = "Echoing" /\ session'[i] # "Echoing")
          => \/ /\ session'[i] = "AwaitingFrame"
                /\ FramesOf(outwire'[i]) =
                       Append(FramesOf(outwire[i]), received[i][Len(received[i])])
                /\ Leftover(outwire'[i]) = <<>>
                /\ nWritten'[i] = nWritten[i] + 1
             \/ /\ session'[i] = "ClosedFaulted"
                /\ link[i] = "reset"]_vars

\* The empty frame and a two-byte frame have been received and echoed.
C3_Witness ==
    \E i \in Items :
        /\ session[i] = "AwaitingFrame"
        /\ received[i] = << <<>>, <<1, 0>> >>
        /\ outwire[i] = <<0, 0, 0, 0, 0, 0, 0, 2, 1, 0>>

\* C4: on a running session the frames written back are the frames received,
\* in the same order and with the same boundaries; only the frame being sent
\* may still be missing or partly written, and what is written of it together
\* with what the socket has not taken yet is exactly that frame.
C4_OrderAndBoundaries ==
    \A i \in Items :
        /\ session[i] = "AwaitingFrame"
           => /\ FramesOf(outwire[i]) = received[i]
              /\ Leftover(outwire[i]) = <<>>
              /\ wbuf[i] = <<>>
        /\ session[i] = "Echoing"
           => /\ FramesOf(outwire[i]) \o pending[i] = received[i]
              /\ Leftover(outwire[i]) \o wbuf[i] = Encode(pending[i][1])
              /\ wbuf[i] # <<>>
              /\ Len(pending[i]) = 1

\* Two different frames have been echoed in the order they came.
C4_Witness ==
    \E i \in Items :
        /\ session[i] = "AwaitingFrame"
        /\ Len(received[i]) = 2 /\ received[i][1] # received[i][2]
        /\ nWritten[i] = 2

\* Everything the model keeps about item t.
ItemView(t) ==
    <<stage[t], stagesDone[t], session[t], err[t], link[t], peerModes[t], secMode[t],
      protoId[t], offered[t], inbuf[t], nSent[t], received[t], pending[t], outwire[t], wbuf[t],
      nWritten[t], holders[t]>>

\* The items whose future for_each has taken and not yet seen resolve.
InFlight == {i \in Items : stage[i] \in UpgradeStages \cup {"session"}}

C6_GracefulTermination ==
    [][\A i \in Items :
          (/\ Driving(i, "session") /\ session[i] = "AwaitingFrame"
           /\ link[i] = "eof" /\ inbuf[i] = <<>>
           /\ session'[i] # session[i])
          => /\ session'[i] = "ClosedClean"
             /\ err'[i] = "none"
             /\ nWritten'[i] = nWritten[i]
             /\ holders'[i] = {}
             /\ stage'[i] = "dropped"
             /\ loopState' = "running"]_vars

\* A session that echoed a frame has ended cleanly.
C6_Witness ==
    \E i \in Items : session[i] = "ClosedClean" /\ nWritten[i] >= 1 /\ err[i] = "none"

\* C7: the negotiated security mode is plaintext when the remote announced
\* plaintext only, and secio whenever the remote announced secio.
C7_SecurityMode ==
    \A i \in Items :
        secMode[i] # "none"
        => /\ peerModes[i] = {"plaintext"} => secMode[i] = "plaintext"
           /\ "secio" \in peerModes[i] => secMode[i] = "secio"

\* A remote that announced both modes got secio.
C7_Witness ==
    \E i \in Items : peerModes[i] = {"plaintext", "secio"} /\ secMode[i] = "secio"

\* C8: the stages that succeeded are always a prefix of security, multiplex,
\* protocol; the stage in progress is the one right after them; an echo
\* session exists, and frames are read or written, only after all three; and
\* an item dropped before the third stage succeeded never had a session.
C8_StageOrder ==
    LET order == <<"security", "multiplex", "protocol">>
    IN  \A i \in Items :
            /\ Len(stagesDone[i]) <= 3
            /\ stagesDone[i] = SubSeq(order, 1, Len(stagesDone[i]))
            /\ stage[i] \in UpgradeStages => stage[i] = order[Len(stagesDone[i]) + 1]
            /\ (stage[i] = "session" \/ session[i] # "none" \/ received[i] # <<>>
                    \/ nWritten[i] > 0)
               => stagesDone[i] = order
            /\ (stage[i] = "dropped" /\ stagesDone[i] # order)
               => session[i] = "none" /\ nWritten[i] = 0 /\ err[i] # "none"

\* An echo session is sending after the three stages succeeded.
C8_Witness ==
    \E i \in Items :
        session[i] = "Echoing" /\ stagesDone[i] = <<"security", "multiplex", "protocol">>

\* C9: a session runs only on a substream whose negotiated identifier is
\* "/echo/1.0.0" and whose remote offered exactly that identifier; and an item
\* whose protocol negotiation failed was offered no such identifier and never
\* had a session or a frame written.
C9_ProtocolId ==
    \A i \in Items :
        /\ stage[i] = "session"
           => protoId[i] = EchoId /\ EchoId \in Range(offered[i])
        /\ protoId[i] \in {"none", EchoId}
        /\ (stage[i] = "dropped" /\ Len(stagesDone[i]) = 2 /\ err[i] = "NegotiationError")
           => /\ EchoId \notin Range(offered[i])
              /\ session[i] = "none"
              /\ nWritten[i] = 0

\* One negotiation failed on a near miss of the identifier and another one
\* succeeded.
C9_Witness ==
    \E i, j \in Items :
        /\ stage[i] = "dropped" /\ offered[i] = <<"/echo/1.0.0/x">>
        /\ err[i] = "NegotiationError"
        /\ stage[j] = "session" /\ protoId[j] = EchoId

\* C10: the socket of an item has at most one owner: the listener before the
\* item is taken, the upgrade while it is pending, the read while a session
\* awaits a frame, the send while it echoes, and nobody once it is dropped.
C10_ExclusiveOwner ==
    \A i \in Items :
        /\ Cardinality(holders[i]) <= 1
        /\ stage[i] = "queued" => holders[i] = {"listener"}
        /\ stage[i] \in UpgradeStages => holders[i] = {"upgrade"}
        /\ session[i] = "AwaitingFrame" => holders[i] = {"into_future"}
        /\ session[i] = "Echoing" => holders[i] = {"send"}
        /\ stage[i] \in {"absent", "dropped"} => holders[i] = {}

\* A send owns the socket of a session that already echoed a frame.
C10_Witness ==
    \E i \in Items : holders[i] = {"send"} /\ nWritten[i] >= 1

(***************************************************************************)
(* Outbound requests through the connection-reuse adapter                  *)
(* (into_connection_reuse).                                                *)
(***************************************************************************)
\* Faulty variant: the table of live connections is not consulted.
ReuseDecisionAlwaysCreate(live, p) == "create"

\* Check for an existing connection to p, else create one: one decision.
ReuseDecision(live, p) == IF p \in live THEN "reuse" ELSE "create"

\* An outbound request to peer p: a substream on the live connection to p, or
\* on a connection established for it.
Dial(p) ==
    /\ nDials[p] < MaxDials
    /\ nDials' = [nDials EXCEPT ![p] = @ + 1]
    /\ IF ReuseDecision(cache, p) = "create"
       THEN /\ nEstablished' = [nEstablished EXCEPT ![p] = @ + 1]
            /\ cache' = cache \cup {p}
       ELSE UNCHANGED <<nEstablished, cache>>
    /\ nSubstreams' = [nSubstreams EXCEPT ![p] = @ + 1]
    /\ UNCHANGED <<nClosed, serverVars, bootVars>>

\* The underlying connection to p is closed: it leaves the table.
ConnClosed(p) ==
    /\ p \in cache
    /\ cache' = cache \ {p}
    /\ nClosed' = [nClosed EXCEPT ![p] = @ + 1]
    /\ UNCHANGED <<nDials, nEstablished, nSubstreams, serverVars, bootVars>>

DialNext ==
    \/ \E p \in Peers : Dial(p)
    \/ \E p \in Peers : ConnClosed(p)

SpecDial == Init /\ [][DialNext]_vars

\* No socket is bound, the listener never ran and no connection was ever seen.
NeverListened ==
    /\ bound = <<>>
    /\ loopState = "idle"
    /\ nArrived = 0 /\ queue = <<>> /\ fut = 0
    /\ \A i \in Items : stage[i] = "absent"

\* C11: once main is past listen_on with an address that parsed but that the
\* transport does not support, the process has ended on "unsupported
\* multiaddr", the error carries the address that was asked for, no socket is
\* bound, and the server never listens nor sees a connection.
C11_UnsupportedAddress ==
    (startup \in {"listening", "failed"} /\ addr # <<>> /\ ~ListenSupported(addr))
    => /\ startup = "failed"
       /\ panic = "unsupported multiaddr"
       /\ failAddr = ParseAddr(ListenText(argv)).desc
       /\ failAddr # <<>>
       /\ NeverListened

\* main ended on an address with a UDP port.
C11_Witness ==
    /\ startup = "failed" /\ panic = "unsupported multiaddr"
    /\ Len(failAddr) = 2 /\ failAddr[2] = [tag |-> "udp", value |-> 4001]

\* C16: once main is past the parsing of an address text that does not
\* parse, the process has ended on "invalid multiaddr" with no socket bound
\* and no connection seen; and a server started without an address listens
\* on /ip4/0.0.0.0/tcp/10333.
C16_MalformedOrDefault ==
    /\ (startup # "start" /\ ~ParseAddr(ListenText(argv)).ok)
       => /\ startup = "failed"
          /\ panic = "invalid multiaddr"
          /\ addr = <<>>
          /\ NeverListened
    /\ (argv = <<>> /\ startup # "start")
       => /\ addr = <<[tag |-> "ip4", value |-> <<0, 0, 0, 0>>],
                      [tag |-> "tcp", value |-> 10333]>>
          /\ startup = "listening" => bound = addr

\* main ended on a port that is no number.
C16_Witness ==
    /\ argv = << <<"ip4", "127.0.0.1", "tcp", "port">> >>
    /\ startup = "failed" /\ panic = "invalid multiaddr"

\* C12: a peer never has two live underlying connections; every request got
\* its own substream; and as long as no connection to the peer was closed,
\* all requests to it together caused exactly one connection establishment.
C12_ConnectionReuse ==
    \A p \in Peers :
        /\ nEstablished[p] - nClosed[p] \in {0, 1}
        /\ p \in cache <=> nEstablished[p] - nClosed[p] = 1
        /\ nSubstreams[p] = nDials[p]
        /\ (nClosed[p] = 0 /\ nDials[p] >= 1) => nEstablished[p] = 1

\* Two requests to the same peer: one connection, two substreams.
C12_Witness ==
    /\ nDials["P"] = 2 /\ nEstablished["P"] = 1 /\ nSubstreams["P"] = 2
    /\ nClosed["P"] = 0

Terminal == {"ClosedClean", "ClosedFaulted"}

\* C13: the state of a session changes only along these transitions: started
\* into AwaitingFrame; from AwaitingFrame to Echoing when the read yields a
\* frame, to ClosedClean when it yields end-of-stream, to ClosedFaulted when
\* it fails; from Echoing back to AwaitingFrame when that frame was written,
\* or to ClosedFaulted when the write fails. ClosedClean and ClosedFaulted are
\* final: nothing of the item changes any more, so nothing is read or written.
C13_SessionStateMachine ==
    [][\A i \in Items :
          LET d == Decode(inbuf[i])
          IN  /\ session'[i] # session[i]
                 => \/ /\ session[i] = "none"
                       /\ session'[i] = "AwaitingFrame"
                    \/ /\ session[i] = "AwaitingFrame"
                       /\ session'[i] = "Echoing"
                       /\ d.kind = "frame"
                       /\ pending'[i] = <<d.msg>>
                       /\ wbuf'[i] = Encode(d.msg)
                       /\ received'[i] = Append(received[i], d.msg)
                    \/ /\ session[i] = "AwaitingFrame"
                       /\ session'[i] = "ClosedClean"
                       /\ d.kind = "none" /\ d.rest = <<>> /\ link[i] = "eof"
                    \/ /\ session[i] = "AwaitingFrame"
                       /\ session'[i] = "ClosedFaulted"
                       /\ \/ d.kind = "error"
                          \/ d.kind = "none" /\ link[i] = "reset"
                          \/ d.kind = "none" /\ link[i] = "eof" /\ d.rest # <<>>
                    \/ /\ session[i] = "Echoing"
                       /\ session'[i] = "AwaitingFrame"
                       /\ outwire'[i] = outwire[i] \o wbuf[i]
                       /\ Leftover(outwire[i]) \o wbuf[i] = Encode(pending[i][1])
                    \/ /\ session[i] = "Echoing"
                       /\ session'[i] = "ClosedFaulted"
                       /\ link[i] = "reset"
              /\ session[i] \in Terminal => ItemView(i)' = ItemView(i)]_vars

\* A session faulted after it had echoed a frame, and another item is served.
C13_Witness ==
    \E i, j \in Items :
        /\ session[i] = "ClosedFaulted" /\ nWritten[i] >= 1
        /\ session[j] = "AwaitingFrame"

\* The undecoded bytes start with the head of a frame of length 0.
EmptyFrameNext(i) == Len(inbuf[i]) >= HeadLen /\ SubSeq(inbuf[i], 1, HeadLen) = <<0, 0, 0, 0>>

\* C14: a session that awaits a frame and finds a frame of length 0 goes to
\* Echoing with the empty message, writes it back as a frame of length 0 and
\* awaits the next frame; a session becomes ClosedClean only when the remote
\* has signalled end-of-stream and no frame of length 0 is waiting.
C14_EmptyFrameEchoed ==
    [][\A i \in Items :
          /\ (session[i] = "AwaitingFrame" /\ EmptyFrameNext(i) /\ session'[i] # session[i])
             => session'[i] = "Echoing" /\ pending'[i] = << <<>> >>
          /\ (session[i] = "Echoing" /\ pending[i] = << <<>> >> /\ session'[i] # session[i]
                /\ link[i] # "reset")
             => /\ session'[i] = "AwaitingFrame"
                /\ FramesOf(outwire'[i]) = Append(FramesOf(outwire[i]), <<>>)
                /\ Leftover(outwire[i]) \o wbuf[i] = <<0, 0, 0, 0>>
                /\ outwire'[i] = outwire[i] \o wbuf[i]
          /\ (session[i] # "ClosedClean" /\ session'[i] = "ClosedClean")
             => link[i] = "eof" /\ ~EmptyFrameNext(i)]_vars

\* An empty frame was echoed and the session, still open, awaits the next.
C14_Witness ==
    \E i \in Items :
        /\ session[i] = "AwaitingFrame" /\ link[i] = "open"
        /\ received[i] = << <<>> >> /\ outwire[i] = <<0, 0, 0, 0>>

\* C15: a frame is read only by a session that awaits one, with no frame
\* pending and with every frame received before completely on the wire; at
\* most one received frame is ever pending its echo.
C15_ProgramOrder ==
    [][\A i \in Items :
          /\ Len(received'[i]) > Len(received[i])
             => /\ session[i] = "AwaitingFrame"
                /\ pending[i] = <<>>
                /\ FramesOf(outwire[i]) = received[i]
                /\ Leftover(outwire[i]) = <<>>
          /\ Len(pending'[i]) <= 1
          /\ stage'[i] = "session" => Len(received'[i]) - nWritten'[i] = Len(pending'[i])]_vars

\* The second frame was read after the echo of the first, and the socket has
\* taken a part of its echo.
C15_Witness ==
    \E i \in Items :
        /\ session[i] = "Echoing" /\ Len(received[i]) = 2 /\ nWritten[i] = 1
        /\ Leftover(outwire[i]) # <<>> /\ wbuf[i] # <<>>

\* C17: at most one item is in flight, and it is the one for_each holds; the
\* items that arrived meanwhile wait in the listener.
C17_OneItemAtATime ==
    /\ Cardinality(InFlight) <= 1
    /\ fut = 0 => InFlight = {}
    /\ fut # 0 => InFlight = {fut}
    /\ \A k \in 1..Len(queue) : stage[queue[k]] = "queued"

\* The second connection waits while the session of the first one echoes.
C17_Witness ==
    fut = 1 /\ session[1] = "Echoing" /\ queue = <<2>>

\* C19: in every reachable state of a running session the frames on the wire
\* are never more than the frames received and at most one fewer; every byte
\* on the wire is a byte of the framing of a received frame, a partly written frame being the one that
\* is echoed; bytes are written only by a session that is echoing; and a
\* session that read end-of-stream writes nothing.
C19_NoUnsolicitedWrites ==
    /\ [](\A i \in Items :
             stage[i] = "session"
             => LET w == Len(FramesOf(outwire[i]))
                    r == Len(received[i])
                IN  /\ w <= r /\ r - w <= 1
                    /\ FramesOf(outwire[i] \o wbuf[i]) = received[i]
                    /\ Leftover(outwire[i] \o wbuf[i]) = <<>>
                    /\ Leftover(outwire[i]) # <<>> => r - w = 1)
    /\ [][\A i \in Items :
             /\ (stage'[i] = "session" /\ outwire'[i] # outwire[i])
                => session[i] = "Echoing"
             /\ nWritten'[i] # nWritten[i] => session[i] = "Echoing"
             /\ (session[i] = "ClosedClean" \/ session'[i] = "ClosedClean")
                => nWritten'[i] = nWritten[i]]_vars

\* End-of-stream was read after two echoes.
C19_Witness ==
    \E i \in Items : session[i] = "ClosedClean" /\ nWritten[i] = 2

\* C18: whenever for_each polls the listener, an error of the listener
\* stream ends the loop: the loop is then failed, run returns the error and
\* its unwrap panics, and no connection is accepted or served any more. The
\* loop fails in no other way: a step that fails it is the listener's error,
\* with no item future in flight, whatever errors the items before have had.
C18_ListenerErrorFatal ==
    /\ [](/\ (loopState = "running" /\ fut = 0)
             => ENABLED (ListenerError /\ loopState' = "failed")
          /\ loopState = "failed"
             => /\ RunResult(loopState) = "panic"
                /\ fut = 0 /\ InFlight = {}
                /\ ~ENABLED Accept)
    /\ [][/\ loopState' # loopState
             => loopState = "running" /\ loopState' = "failed" /\ fut = 0
          /\ (\E i \in Items : err'[i] # err[i]) => loopState' = loopState]_vars

\* The loop failed after a connection's error had been absorbed, with a
\* connection still waiting in the listener.
C18_Witness ==
    /\ loopState = "failed"
    /\ \E i \in Items : err[i] # "none"
    /\ queue # <<>>

====
